---------------------------- MODULE Spec2Model ----------------------------
(***************************************************************************)
(* A model of the pulldown-latex parser: the low-level lexer               *)
(* (src/src/parse/lex.rs) and the pull parser (src/src/parse.rs).          *)
(*                                                                         *)
(* A Rust `char` is its Unicode code point, a `&str` is the sequence of    *)
(* its chars.  Byte offsets are kept where the code slices by byte, so a   *)
(* slice that does not fall on a char boundary is a panic, as in Rust.     *)
(***************************************************************************)
EXTENDS Integers, Sequences, FiniteSets, TLC

VARIABLES
    instruction_stack,  \* Parser::instruction_stack, top = last element
    group_stack,        \* Parser::group_stack, top = last element
    stream,             \* history: the items next() has returned so far
    status,             \* "running", "done" (next() returned None), "panicked"
    input0,             \* history: the input Parser::new was given
    last_call,          \* history: the method of the parser called last
    lex_fn,             \* the lexer function that was called ("none": not yet)
    lex_input,          \* the cursor the lexer function was called with
    lex_result          \* what it returned, with the cursor afterwards

vars == <<instruction_stack, group_stack, stream, status, input0, last_call,
          lex_fn, lex_input, lex_result>>

parser_vars ==
    <<instruction_stack, group_stack, stream, status, input0, last_call>>
lex_vars == <<lex_fn, lex_input, lex_result>>

----------------------------------------------------------------------------
(* Bounds of the model.                                                    *)

MaxLen == 4
MaxGroupLen == 6
MaxRoundTrip == 12
MaxTokens == 4

----------------------------------------------------------------------------
(* char and str primitives of the Rust standard library, as the lexer     *)
(* uses them.                                                              *)

is_ascii(c) == c < 128
is_ascii_digit(c) == c \in 48..57
is_ascii_alphabetic(c) == c \in (65..90) \cup (97..122)
is_ascii_alphanumeric(c) == is_ascii_digit(c) \/ is_ascii_alphabetic(c)

\* char::is_whitespace: the Unicode White_Space property.
is_whitespace(c) ==
    c \in (9..13) \cup {32, 133, 160, 5760} \cup (8192..8202)
          \cup {8232, 8233, 8239, 8287, 12288}

\* char::len_utf8
len_utf8(c) ==
    IF c < 128 THEN 1 ELSE IF c < 2048 THEN 2 ELSE IF c < 65536 THEN 3 ELSE 4

\* The number of chars that make up exactly the first n bytes of s, or -1
\* when byte offset n is past the end or inside a char.
RECURSIVE chars_before(_, _)
chars_before(s, n) ==
    IF n = 0 THEN 0
    ELSE IF s = <<>> \/ len_utf8(Head(s)) > n THEN -1
    ELSE LET k == chars_before(Tail(s), n - len_utf8(Head(s)))
         IN  IF k = -1 THEN -1 ELSE k + 1

\* str::is_char_boundary
is_char_boundary(s, n) == chars_before(s, n) # -1

\* &s[n..] and &s[..n], defined when n is a char boundary (else Rust panics)
slice_from(s, n) == SubSeq(s, chars_before(s, n) + 1, Len(s))
slice_to(s, n) == SubSeq(s, 1, chars_before(s, n))

\* str::trim_start
RECURSIVE trim_start(_)
trim_start(s) ==
    IF s # <<>> /\ is_whitespace(Head(s)) THEN trim_start(Tail(s)) ELSE s

\* s.chars().take_while(|c| c.is_ascii_alphabetic()).count()
RECURSIVE alphabetic_run(_)
alphabetic_run(s) ==
    IF s # <<>> /\ is_ascii_alphabetic(Head(s))
    THEN 1 + alphabetic_run(Tail(s)) ELSE 0

Max(a, b) == IF a >= b THEN a ELSE b

\* All strings over an alphabet up to a length.
Strings(alphabet, n) == UNION {[1..k -> alphabet] : k \in 0..n}

----------------------------------------------------------------------------
(* Results.  A lexer function returns Ok(value) or Err(error) and leaves   *)
(* the cursor at `rest`; a panic unwinds and leaves nothing.               *)

Ok(v, rest) == [tag |-> "Ok", value |-> v, rest |-> rest]
Err(e, rest) == [tag |-> "Err", value |-> e, rest |-> rest]
Panic == [tag |-> "Panic", value |-> "panic", rest |-> <<>>]

EndOfInput == [kind |-> "EndOfInput"]
InvalidChar(c) == [kind |-> "InvalidChar", char |-> c]
MathShift == [kind |-> "MathShift"]
HashSign == [kind |-> "HashSign"]
AlignmentChar == [kind |-> "AlignmentChar"]

ControlSequence(name) == [type |-> "ControlSequence", name |-> name]
Character(c) == [type |-> "Character", char |-> c]

----------------------------------------------------------------------------
(* The lexer, src/src/parse/lex.rs                                         *)

\* one_optional_space: the slice is taken at byte 1 whatever the width of
\* the whitespace char.
one_optional_space(input) ==
    IF input # <<>> /\ is_whitespace(Head(input))
    THEN IF is_char_boundary(input, 1)
         THEN Ok(TRUE, slice_from(input, 1))
         ELSE Panic
    ELSE Ok(FALSE, input)

\* rhs_control_sequence: `len` counts chars and split_at takes bytes.
rhs_control_sequence(input) ==
    IF input = <<>> THEN Ok(input, input)
    ELSE LET len == Max(alphabetic_run(input), 1)
         IN  IF is_char_boundary(input, len)
             THEN Ok(slice_to(input, len), trim_start(slice_from(input, len)))
             ELSE Panic

control_sequence(input) ==
    IF input # <<>> /\ Head(input) = 92
    THEN rhs_control_sequence(slice_from(input, 1))
    ELSE IF input = <<>> THEN Err(EndOfInput, input)
         ELSE Err(InvalidChar(Head(input)), input)

\* The match of token on what control_sequence returned
token_match(cs) ==
    IF cs.tag = "Ok" THEN Ok(ControlSequence(cs.value), cs.rest)
    ELSE IF cs.tag = "Err" /\ cs.value.kind = "InvalidChar"
         THEN Ok(Character(cs.value.char), cs.rest)
         ELSE cs

token(input) == token_match(control_sequence(input))

\* group_content_closure with a backslash that always escapes: two in a row
\* no longer cancel.
group_content_closure_no_cancel(balance, escaped, c) ==
    IF c = 123 /\ ~escaped
    THEN [stop |-> FALSE, balance |-> balance + 1, escaped |-> escaped]
    ELSE IF c = 125 /\ ~escaped
    THEN IF balance = 0
         THEN [stop |-> TRUE, balance |-> balance, escaped |-> escaped]
         ELSE [stop |-> FALSE, balance |-> balance - 1, escaped |-> escaped]
    ELSE IF c = 92
    THEN [stop |-> FALSE, balance |-> balance, escaped |-> TRUE]
    ELSE [stop |-> FALSE, balance |-> balance, escaped |-> FALSE]

\* One step of the try_fold closure of group_content: the new balance and
\* escaped flag, or stop (the closure's Err(index)).
group_content_closure(balance, escaped, c) ==
    IF c = 123 /\ ~escaped
    THEN [stop |-> FALSE, balance |-> balance + 1, escaped |-> escaped]
    ELSE IF c = 125 /\ ~escaped
    THEN IF balance = 0
         THEN [stop |-> TRUE, balance |-> balance, escaped |-> escaped]
         ELSE [stop |-> FALSE, balance |-> balance - 1, escaped |-> escaped]
    ELSE IF c = 92
    THEN [stop |-> FALSE, balance |-> balance, escaped |-> ~escaped]
    ELSE [stop |-> FALSE, balance |-> balance, escaped |-> FALSE]

\* input.char_indices().try_fold(0, ...): the byte index the fold stopped
\* at, or -1 when it ran to the end of the input.
RECURSIVE group_content_fold(_, _, _, _)
group_content_fold(s, index, balance, escaped) ==
    IF s = <<>> THEN -1
    ELSE LET step == group_content_closure(balance, escaped, Head(s))
         IN  IF step.stop THEN index
             ELSE group_content_fold(Tail(s), index + len_utf8(Head(s)),
                                     step.balance, step.escaped)

\* The split of group_content at the index the fold stopped at
group_content_split(input, end_index) ==
    IF end_index # -1
    THEN IF is_char_boundary(input, end_index)
              /\ is_char_boundary(slice_from(input, end_index), 1)
         THEN Ok(slice_to(input, end_index),
                 slice_from(slice_from(input, end_index), 1))
         ELSE Panic
    ELSE Err(EndOfInput, input)

group_content(input) ==
    group_content_split(input, group_content_fold(input, 0, 0, FALSE))

\* signs_closure counting every sign, '+' as well as '-'.
signs_closure_counts_plus(c, minus_count) ==
    IF c = 45 \/ c = 43 THEN [matched |-> TRUE, acc |-> minus_count + 1]
    ELSE [matched |-> is_whitespace(c), acc |-> minus_count]

\* The closure signs hands to trim_start_matches: whether c is trimmed and
\* the new minus_count.
signs_closure(c, minus_count) ==
    IF c = 45 THEN [matched |-> TRUE, acc |-> minus_count + 1]
    ELSE [matched |-> (c = 43 \/ is_whitespace(c)), acc |-> minus_count]

\* The digit closures of decimal, octal and hexadecimal.
decimal_closure(c, number) ==
    IF is_ascii_digit(c) THEN [matched |-> TRUE, acc |-> number * 10 + (c - 48)]
    ELSE [matched |-> FALSE, acc |-> number]

octal_closure(c, number) ==
    IF is_ascii_digit(c) THEN [matched |-> TRUE, acc |-> number * 8 + (c - 48)]
    ELSE [matched |-> FALSE, acc |-> number]

\* char::to_digit(16)
to_digit16(c) ==
    IF c \in 48..57 THEN c - 48
    ELSE IF c \in 65..70 THEN c - 55
    ELSE IF c \in 97..102 THEN c - 87
    ELSE -1

hexadecimal_closure(c, number) ==
    IF is_ascii_alphanumeric(c) /\ c < 71
    THEN [matched |-> TRUE, acc |-> number * 16 + to_digit16(c)]
    ELSE [matched |-> FALSE, acc |-> number]

\* The closure a caller hands to trim_start_matches.
closure_call(closure, c, acc) ==
    CASE closure = "signs" -> signs_closure(c, acc)
      [] closure = "decimal" -> decimal_closure(c, acc)
      [] closure = "octal" -> octal_closure(c, acc)
      [] closure = "hexadecimal" -> hexadecimal_closure(c, acc)

\* str::trim_start_matches with a closure that carries an accumulator: the
\* closure runs on each char in turn until it rejects one.
RECURSIVE trim_start_matches(_, _, _)
trim_start_matches(s, acc, closure) ==
    IF s = <<>> THEN [rest |-> s, acc |-> acc]
    ELSE LET step == closure_call(closure, Head(s), acc)
         IN  IF step.matched THEN trim_start_matches(Tail(s), step.acc, closure)
             ELSE [rest |-> s, acc |-> step.acc]

\* The signum of signs from what trim_start_matches left
signs_signum(m) == Ok(IF m.acc % 2 = 0 THEN 1 ELSE -1, trim_start(m.rest))

signs(input) == signs_signum(trim_start_matches(trim_start(input), 0, "signs"))

\* The tail shared by decimal, octal and hexadecimal: one_optional_space,
\* then Ok(number).
number_ok(number, sp) == IF sp.tag = "Panic" THEN Panic ELSE Ok(number, sp.rest)
number_then_space(m) == number_ok(m.acc, one_optional_space(m.rest))

decimal(input) == number_then_space(trim_start_matches(input, 0, "decimal"))
octal(input) == number_then_space(trim_start_matches(input, 0, "octal"))
hexadecimal(input) ==
    number_then_space(trim_start_matches(input, 0, "hexadecimal"))

\* integer_char_code without the skip of an escaping backslash.
integer_char_code_no_escape(input) ==
    IF input = <<>> THEN Err(EndOfInput, input)
    ELSE IF is_ascii(Head(input)) THEN Ok(Head(input), Tail(input))
    ELSE Err(InvalidChar(Head(input)), input)

\* The backquote arm of integer, entered with the backquote consumed.  It
\* reads bytes: a non-ASCII char shows as a first byte that is not ASCII.
integer_next_byte(s) ==
    IF s = <<>> THEN Err(EndOfInput, s)
    ELSE IF is_ascii(Head(s)) THEN Ok(Head(s), slice_from(s, 1))
    ELSE Err(InvalidChar(Head(s)), s)

integer_char_code(input) ==
    IF input = <<>> THEN Err(EndOfInput, input)
    ELSE IF Head(input) = 92 THEN integer_next_byte(slice_from(input, 1))
    ELSE integer_next_byte(input)

\* `x as isize * signum` on a successful result.
times_signum(r, signum) ==
    IF r.tag = "Ok" THEN Ok(r.value * signum, r.rest) ELSE r

\* The unsigned part of integer, on the input after the signs
integer_unsigned(s) ==
    IF s = <<>> THEN Err(EndOfInput, s)
    ELSE IF ~is_ascii(Head(s)) THEN Err(InvalidChar(Head(s)), s)
    ELSE IF is_ascii_digit(Head(s)) THEN decimal(s)
    ELSE IF Head(s) = 96 THEN integer_char_code(slice_from(s, 1))
    ELSE IF Head(s) = 39 THEN octal(slice_from(s, 1))
    ELSE IF Head(s) = 34 THEN hexadecimal(slice_from(s, 1))
    ELSE Err(InvalidChar(Head(s)), slice_from(s, 1))

integer_signed(sg) == times_signum(integer_unsigned(sg.rest), sg.value)

integer(input) == integer_signed(signs(input))

\* argument: a braced group or a single token, after leading whitespace.
Group(content) == [type |-> "Group", content |-> content]
Token(t) == [type |-> "Token", token |-> t]

argument_group(g) == IF g.tag = "Ok" THEN Ok(Group(g.value), g.rest) ELSE g
argument_token(t) == IF t.tag = "Ok" THEN Ok(Token(t.value), t.rest) ELSE t

argument_trimmed(s) ==
    IF s # <<>> /\ Head(s) = 123
    THEN argument_group(group_content(slice_from(s, 1)))
    ELSE argument_token(token(s))

argument(input) == argument_trimmed(trim_start(input))

\* str::len, the length in bytes
RECURSIVE byte_len(_)
byte_len(s) == IF s = <<>> THEN 0 ELSE len_utf8(Head(s)) + byte_len(Tail(s))

\* input.chars().find(|c| !c.is_ascii()).expect(..)
RECURSIVE first_non_ascii(_)
first_non_ascii(s) ==
    IF is_ascii(Head(s)) THEN first_non_ascii(Tail(s)) ELSE Head(s)

\* The match of dimension_unit on the two bytes: the DimensionUnit, or
\* "none" for the `_` arm.
DimensionUnit(unit) ==
    CASE unit = <<101, 109>> -> "Em"
      [] unit = <<101, 120>> -> "Ex"
      [] unit = <<112, 116>> -> "Pt"
      [] unit = <<112, 99>> -> "Pc"
      [] unit = <<105, 110>> -> "In"
      [] unit = <<98, 112>> -> "Bp"
      [] unit = <<99, 109>> -> "Cm"
      [] unit = <<109, 109>> -> "Mm"
      [] unit = <<100, 100>> -> "Dd"
      [] unit = <<99, 99>> -> "Cc"
      [] unit = <<115, 112>> -> "Sp"
      [] unit = <<109, 117>> -> "Mu"
      [] OTHER -> "none"

\* The `_` arm: the error points at the second char when the first byte is
\* the start of some unit, else at the first char.
dimension_unit_unknown(unit, input) ==
    IF unit[1] \in {101, 112, 105, 98, 99, 109, 100, 115}
    THEN Err(InvalidChar(unit[2]), input)
    ELSE Err(InvalidChar(unit[1]), input)

\* dimension_unit on the two bytes input.get(0..2) returned
dimension_unit_matched(input, unit) ==
    IF DimensionUnit(unit) = "none"
    THEN dimension_unit_unknown(unit, input)
    ELSE number_ok(DimensionUnit(unit), one_optional_space(slice_from(input, 2)))

\* dimension_unit after its trim_start
dimension_unit_trimmed(input) ==
    IF byte_len(input) < 2 THEN Err(EndOfInput, input)
    ELSE IF ~is_char_boundary(input, 2)
    THEN Err(InvalidChar(first_non_ascii(input)), input)
    ELSE dimension_unit_matched(input, slice_to(input, 2))

dimension_unit(input) == dimension_unit_trimmed(trim_start(input))

\* The position of the first char c of s, or 0 when s has none.
RECURSIVE first_index(_, _)
first_index(s, c) ==
    IF s = <<>> THEN 0
    ELSE IF Head(s) = c THEN 1
    ELSE IF first_index(Tail(s), c) = 0 THEN 0
    ELSE first_index(Tail(s), c) + 1

\* The split at an index first_index returned
split_at_index(s, i) ==
    IF i = 0 THEN [found |-> FALSE, before |-> s, after |-> <<>>]
    ELSE [found |-> TRUE, before |-> SubSeq(s, 1, i - 1),
          after |-> SubSeq(s, i + 1, Len(s))]

\* str::split_once(c): the text before and after the first c.
split_once(s, c) == split_at_index(s, first_index(s, c))

\* definition once the replacement text was read
definition_group(cs, parameter_text, g) ==
    IF g.tag = "Ok" THEN Ok(<<cs, parameter_text, g.value>>, g.rest) ELSE g

\* definition once the input was split at '{'; the `?` on a None leaves the
\* cursor after the control sequence.
definition_split(cs, sp) ==
    IF sp.found
    THEN definition_group(cs.value, sp.before, group_content(sp.after))
    ELSE Err(EndOfInput, cs.rest)

\* definition once the control sequence was read
definition_named(cs) ==
    IF cs.tag = "Ok" THEN definition_split(cs, split_once(cs.rest, 123)) ELSE cs

definition(input) == definition_named(control_sequence(input))

----------------------------------------------------------------------------
(* The parser, src/src/parse.rs                                            *)

\* Option::None, for a font variant or an operator attribute.
None == "None"

\* Event
BeginGroup == [type |-> "BeginGroup"]
EndGroup == [type |-> "EndGroup"]
Number(content, variant) ==
    [type |-> "Number", content |-> content, variant |-> variant]
Identifier(c, variant) ==
    [type |-> "Identifier", content |-> c, variant |-> variant]
Operator(c) ==
    [type |-> "Operator", content |-> c, stretchy |-> None,
     moveable_limits |-> None, left_space |-> None, right_space |-> None,
     size |-> None]
Infix(kind) == [type |-> "Infix", kind |-> kind]

\* Instruction
Event(event) == [instr |-> "Event", event |-> event]
Substring(content, pop_internal_group) ==
    [instr |-> "Substring", content |-> content,
     pop_internal_group |-> pop_internal_group]

GroupNesting(font_state, group_type) ==
    [font_state |-> font_state, group_type |-> group_type]

\* Vec::last, Vec::pop, Vec::push
Top(stack) == stack[Len(stack)]
Pop(stack) == SubSeq(stack, 1, Len(stack) - 1)
Push(stack, x) == Append(stack, x)

\* What a call of next() produces: Some(Ok(event)), Some(Err(error)), None,
\* or a panic; with the two stacks as the call leaves them.
SomeOk(event, istack, gstack) ==
    [tag |-> "Some", item |-> [ok |-> TRUE, event |-> event],
     istack |-> istack, gstack |-> gstack]
SomeErr(error, istack, gstack) ==
    [tag |-> "Some", item |-> [ok |-> FALSE, error |-> error],
     istack |-> istack, gstack |-> gstack]
NoneLeft(istack, gstack) ==
    [tag |-> "None", item |-> None, istack |-> istack, gstack |-> gstack]
Panicked(istack, gstack) ==
    [tag |-> "Panic", item |-> None, istack |-> istack, gstack |-> gstack]

\* Parser::new with the instructions seeded in reading order, so that the
\* EndGroup ends on top of the stack.
Parser_new_reading_order(input) ==
    [istack |-> <<Event(BeginGroup), Substring(input, TRUE), Event(EndGroup)>>,
     gstack |-> <<GroupNesting(None, "Internal")>>]

\* Parser::new
Parser_new(input) ==
    [istack |-> <<Event(EndGroup), Substring(input, TRUE), Event(BeginGroup)>>,
     gstack |-> <<GroupNesting(None, "Internal")>>]

\* current_string popping a group with every drained substring, whatever
\* its pop_internal_group flag.
RECURSIVE current_string_any_flag(_, _)
current_string_any_flag(istack, gstack) ==
    IF istack = <<>> \/ Top(istack).instr # "Substring"
    THEN [tag |-> "Err", value |-> EndOfInput, istack |-> istack, gstack |-> gstack]
    ELSE IF Top(istack).content = <<>>
    THEN IF gstack # <<>> /\ Top(gstack).group_type = "Internal"
         THEN current_string_any_flag(Pop(istack), Pop(gstack))
         ELSE [tag |-> "Panic", value |-> None, istack |-> istack,
               gstack |-> IF gstack = <<>> THEN gstack ELSE Pop(gstack)]
    ELSE [tag |-> "Ok", value |-> Top(istack).content, istack |-> istack,
          gstack |-> gstack]

\* Parser::current_string: drops the drained substrings on top of the
\* instruction stack, with the group of each that asks for it, and leaves a
\* substring with input on top; Err when an event (or nothing) is on top.
RECURSIVE current_string(_, _)
current_string(istack, gstack) ==
    IF istack = <<>> \/ Top(istack).instr # "Substring"
    THEN [tag |-> "Err", value |-> EndOfInput, istack |-> istack, gstack |-> gstack]
    ELSE IF Top(istack).content = <<>>
    THEN IF Top(istack).pop_internal_group
         THEN IF gstack # <<>> /\ Top(gstack).group_type = "Internal"
              THEN current_string(Pop(istack), Pop(gstack))
              ELSE [tag |-> "Panic", value |-> None, istack |-> istack,
                    gstack |-> IF gstack = <<>> THEN gstack ELSE Pop(gstack)]
         ELSE current_string(Pop(istack), gstack)
    ELSE [tag |-> "Ok", value |-> Top(istack).content, istack |-> istack,
          gstack |-> gstack]

\* `*content = rest` on the substring on top of the instruction stack
set_content(istack, rest) ==
    [istack EXCEPT ![Len(istack)].content = rest]

\* The pending-event arm of next(), taking the oldest instruction instead
\* of the newest.
next_event_fifo(istack, gstack) ==
    IF istack[1].instr = "Event"
    THEN SomeOk(istack[1].event, Tail(istack), gstack)
    ELSE SomeOk(Top(istack).event, Pop(istack), gstack)

\* The pending-event arm of next(): pop the event and return it.
next_event(istack, gstack) ==
    SomeOk(Top(istack).event, Pop(istack), gstack)

\* digit_or_dot_run stopping at a '.': the run of digits alone.
RECURSIVE digit_run(_)
digit_run(s) ==
    IF s # <<>> /\ is_ascii_digit(Head(s)) THEN 1 + digit_run(Tail(s)) ELSE 0

\* s.chars().take_while(|&c| c.is_ascii_digit() || c == '.').count()
RECURSIVE digit_or_dot_run(_)
digit_or_dot_run(s) ==
    IF s # <<>> /\ (is_ascii_digit(Head(s)) \/ Head(s) = 46)
    THEN 1 + digit_or_dot_run(Tail(s)) ELSE 0

\* The number arm of next(): the first char and the run of digits and '.'
\* after it, with the font of the group on top (None without a group).
next_number(istack, gstack) ==
    LET content == Top(istack).content
        len == digit_or_dot_run(Tail(content)) + 1
        variant == IF gstack = <<>> THEN None ELSE Top(gstack).font_state
    IN  IF is_char_boundary(content, len)
        THEN SomeOk(Number(slice_to(content, len), variant),
                    set_content(istack, slice_from(content, len)), gstack)
        ELSE Panicked(istack, gstack)

\* The names of the primitives of the model, and the errors the handlers
\* raise besides those of ParseError.
BarName == <<98, 97, 114>>
MathbfName == <<109, 97, 116, 104, 98, 102>>
BegingroupName == <<98, 101, 103, 105, 110, 103, 114, 111, 117, 112>>
EndgroupName == <<101, 110, 100, 103, 114, 111, 117, 112>>
UnmatchedClose == [kind |-> "UnmatchedClose"]
UnknownControlSequence(name) == [kind |-> "UnknownControlSequence", name |-> name]

\* The text of a token, to parse it again as a substring.
token_text(tok) ==
    IF tok.type = "Character" THEN <<tok.char>> ELSE <<92>> \o tok.name

\* The text of an argument: the inside of the group, or the one token.
argument_text(arg) ==
    IF arg.type = "Group" THEN arg.content ELSE token_text(arg.token)

\* s after its first line: what a '%' comment leaves.
RECURSIVE after_line(_)
after_line(s) ==
    IF s = <<>> THEN s
    ELSE IF Head(s) = 10 THEN Tail(s) ELSE after_line(Tail(s))

\* A handler that has consumed input without an event of its own: the
\* caller goes on to the next event.
Again(istack, gstack) ==
    [tag |-> "Again", item |-> None, istack |-> istack, gstack |-> gstack]

\* handle_char_token, entered with the char consumed.  current_group()
\* panics without a group; whitespace and comments have no event.
handle_char_token(istack, gstack, c) ==
    IF c = 125
    THEN IF gstack # <<>> /\ Top(gstack).group_type = "Brace"
         THEN SomeOk(EndGroup, istack, Pop(gstack))
         ELSE SomeErr(UnmatchedClose, istack, gstack)
    ELSE IF c = 95 THEN SomeOk(Infix("Subscript"), istack, gstack)
    ELSE IF c = 94 THEN SomeOk(Infix("Superscript"), istack, gstack)
    ELSE IF c = 36 THEN SomeErr(MathShift, istack, gstack)
    ELSE IF c = 35 THEN SomeErr(HashSign, istack, gstack)
    ELSE IF c = 38 THEN SomeErr(AlignmentChar, istack, gstack)
    ELSE IF c = 37
    THEN Again(set_content(istack, after_line(Top(istack).content)), gstack)
    ELSE IF is_whitespace(c) THEN Again(istack, gstack)
    ELSE IF gstack = <<>> THEN Panicked(istack, gstack)
    ELSE IF c = 123
    THEN SomeOk(BeginGroup, istack,
                Push(gstack, GroupNesting(Top(gstack).font_state, "Brace")))
    ELSE SomeOk(Identifier(c, Top(gstack).font_state), istack, gstack)

\* handle_primitive, entered with the control sequence consumed.  A
\* primitive with an argument reads it from current_string() and pushes
\* its desugared form in reverse order.
handle_primitive_desugar(name, arg, rest, gstack) ==
    IF arg.tag = "Panic" THEN Panicked(rest, gstack)
    ELSE IF arg.tag = "Err" THEN SomeErr(arg.value, rest, gstack)
    ELSE IF name = BarName
    THEN SomeOk(BeginGroup,
                rest \o << Event(Operator(8254)),
                           Event(Infix("Overscript")),
                           Event(EndGroup),
                           Substring(argument_text(arg.value), FALSE) >>,
                gstack)
    ELSE IF gstack = <<>> THEN Panicked(rest, gstack)
    ELSE Again(rest \o << Substring(<<>>, TRUE),
                          Substring(argument_text(arg.value), FALSE) >>,
               Push(gstack, GroupNesting("Bold", "Internal")))

handle_primitive_argument(name, cur, arg) ==
    handle_primitive_desugar(name, arg, set_content(cur.istack, arg.rest),
                             cur.gstack)

handle_primitive_with(name, cur) ==
    IF cur.tag = "Panic" THEN Panicked(cur.istack, cur.gstack)
    ELSE IF cur.tag = "Err" THEN SomeErr(cur.value, cur.istack, cur.gstack)
    ELSE handle_primitive_argument(name, cur, argument(cur.value))

handle_primitive(istack, gstack, name) ==
    IF name = BarName \/ name = MathbfName
    THEN handle_primitive_with(name, current_string(istack, gstack))
    ELSE IF name = BegingroupName
    THEN IF gstack = <<>> THEN Panicked(istack, gstack)
         ELSE SomeOk(BeginGroup, istack,
                     Push(gstack, GroupNesting(Top(gstack).font_state, "BeginGroup")))
    ELSE IF name = EndgroupName
    THEN IF gstack # <<>> /\ Top(gstack).group_type = "BeginGroup"
         THEN SomeOk(EndGroup, istack, Pop(gstack))
         ELSE SomeErr(UnmatchedClose, istack, gstack)
    ELSE SomeErr(UnknownControlSequence(name), istack, gstack)

\* The control-sequence arm of next(): the backslash is cut off, the name
\* read by rhs_control_sequence and handed to handle_primitive.
next_control_sequence_named(istack, gstack, cs) ==
    IF cs.tag = "Panic" THEN Panicked(istack, gstack)
    ELSE handle_primitive(set_content(istack, cs.rest), gstack, cs.value)

next_control_sequence(istack, gstack) ==
    next_control_sequence_named(
        istack, gstack, rhs_control_sequence(slice_from(Top(istack).content, 1)))

\* The last arm of next(): one char is cut off and handed to
\* handle_char_token.
next_char_token(istack, gstack) ==
    LET content == Top(istack).content
    IN  handle_char_token(set_content(istack, Tail(content)), gstack, Head(content))

\* Parser::next_unwrap, on what the inner call of next() returned
next_unwrap(r) ==
    IF r.tag = "None" THEN Panicked(r.istack, r.gstack) ELSE r

\* The match of next() on the first char of the substring on top
next_dispatch(istack, gstack) ==
    LET next_char == Head(Top(istack).content)
    IN  IF next_char = 46 \/ is_ascii_digit(next_char)
        THEN next_number(istack, gstack)
        ELSE IF next_char = 92 THEN next_control_sequence(istack, gstack)
        ELSE next_char_token(istack, gstack)

\* Parser::next.  A drained substring on top is popped, its group left
\* alone, and the call starts over; a handler without an event of its own
\* returns the next event by next_unwrap.
RECURSIVE next(_, _)
next_again(r) ==
    IF r.tag = "Again" THEN next_unwrap(next(r.istack, r.gstack)) ELSE r

next(istack, gstack) ==
    IF istack = <<>> THEN NoneLeft(istack, gstack)
    ELSE IF Top(istack).instr = "Event" THEN next_event(istack, gstack)
    ELSE IF Top(istack).content = <<>> THEN next(Pop(istack), gstack)
    ELSE next_again(next_dispatch(istack, gstack))

----------------------------------------------------------------------------
(* The parser driven by its consumer: Parser::new on a bounded input, then *)
(* next() until it returns None.                                           *)

\* The pieces the inputs are made of.
ParserTokens ==
    { <<92>> \o BarName, <<92>> \o MathbfName, <<123>>, <<125>>, <<121>>,
      <<49>>, <<46>>, <<32>>, <<92>>, <<233>> }

RECURSIVE Flatten(_)
Flatten(pieces) ==
    IF pieces = <<>> THEN <<>> ELSE Head(pieces) \o Flatten(Tail(pieces))

\* Inputs longer than MaxTokens pieces: the scenarios of the tests and
\* benches, and the other chars and primitives the handlers know.
ExtraInputs ==
    { <<92>> \o BarName \o <<123, 123, 121, 125, 49, 125>>,
      <<92>> \o BarName \o <<123, 92>> \o BarName \o <<123, 121, 125, 125, 121>>,
      <<97, 95, 123, 53, 95, 123, 53, 125, 125>>,
      <<97, 95, 98, 94, 99>>,
      <<36>>, <<35, 49>>, <<38>>, <<37, 121, 10, 49>>,
      <<92>> \o BegingroupName \o <<121, 92>> \o EndgroupName,
      <<92>> \o BegingroupName \o <<125>>,
      <<123, 92>> \o EndgroupName }

ParserInputs ==
    {Flatten(pieces) : pieces \in Strings(ParserTokens, MaxTokens)}
        \cup ExtraInputs

Init ==
    /\ input0 \in ParserInputs
    /\ instruction_stack = Parser_new(input0).istack
    /\ group_stack = Parser_new(input0).gstack
    /\ stream = <<>>
    /\ status = "running"
    /\ last_call = "new"
    /\ lex_fn = "none"
    /\ lex_input = <<>>
    /\ lex_result = Ok(0, <<>>)

\* What a call of next() leaves in the parser and hands to the consumer.
Returned(r) ==
    /\ instruction_stack' = r.istack
    /\ group_stack' = r.gstack
    /\ stream' = IF r.tag = "Some" THEN Append(stream, r.item) ELSE stream
    /\ status' = CASE r.tag = "Some" -> "running"
                   [] r.tag = "None" -> "done"
                   [] r.tag = "Panic" -> "panicked"
    /\ last_call' = "next"
    /\ UNCHANGED <<input0, lex_vars>>

\* The consumer's call of next()
CallNext == Returned(next(instruction_stack, group_stack))

\* next() with a pending event on top of the instruction stack
Next_Event ==
    /\ status = "running"
    /\ instruction_stack # <<>>
    /\ Top(instruction_stack).instr = "Event"
    /\ CallNext

\* next() with a substring on top of the instruction stack
Next_Substring ==
    /\ status = "running"
    /\ instruction_stack # <<>>
    /\ Top(instruction_stack).instr = "Substring"
    /\ CallNext

\* next() with nothing left: None, at each call
Next_None ==
    /\ status \in {"running", "done"}
    /\ instruction_stack = <<>>
    /\ CallNext

Next == Next_Event \/ Next_Substring \/ Next_None

Spec == Init /\ [][Next]_vars

\* What a call of current_string() leaves in the parser: the stacks without
\* the drained substrings (and their groups) that were on top.
StringReturned(r) ==
    /\ instruction_stack' = r.istack
    /\ group_stack' = r.gstack
    /\ status' = IF r.tag = "Panic" THEN "panicked" ELSE status
    /\ last_call' = "current_string"
    /\ UNCHANGED <<stream, input0, lex_vars>>

\* A call of current_string() between two calls of next()
Call_current_string ==
    /\ status = "running"
    /\ StringReturned(current_string(instruction_stack, group_stack))

\* The parser with both methods called: next() and current_string()
StringNext == Next \/ Call_current_string

StringSpec == Init /\ [][StringNext]_vars

----------------------------------------------------------------------------
(* The lexer functions called on bounded inputs.                           *)

TokenChars == {92, 97, 98, 35, 32, 233}
GroupChars == {123, 125, 92, 97}
SignChars == {32, 43, 45, 97, 160}
DigitChars == {48, 55, 56, 65, 70, 71, 97, 32}
IntegerChars == {45, 32, 39, 34, 96, 92, 49, 55, 65, 97, 233}

\* The decimal literal of n >= 0, as `format!("{n}")` writes it.
RECURSIVE DecimalLiteral(_)
DecimalLiteral(n) ==
    IF n < 10 THEN <<48 + n>>
    ELSE Append(DecimalLiteral(n \div 10), 48 + (n % 10))

RoundTripNumbers ==
    (0..MaxRoundTrip) \cup {99, 100, 1853, 716580, 2147483646, 2147483647}

DecimalInputs ==
    Strings(DigitChars, MaxLen) \cup {DecimalLiteral(n) : n \in RoundTripNumbers}
IntegerInputs ==
    Strings(IntegerChars, MaxLen)
        \cup {<<45>> \o DecimalLiteral(n) : n \in RoundTripNumbers}

\* Inputs of dimension_unit: every pair of unit letters (and of a letter
\* that starts no unit, and of multi-byte chars) with whitespace before and
\* text after, and every short string over a few chars.
UnitChars == {101, 109, 120, 112, 116, 99, 105, 110, 98, 100, 115, 117, 97, 233}
DimensionChars == {32, 101, 109, 97, 233, 8364}
DimensionInputs ==
    Strings(DimensionChars, MaxLen)
        \cup {pre \o <<a, b>> \o suf :
                 pre \in {<<>>, <<32>>}, a \in UnitChars, b \in UnitChars,
                 suf \in {<<>>, <<32>>, <<32, 32>>, <<97>>, <<160>>}}

LexCall(fn, input, result) ==
    /\ lex_fn' = fn
    /\ lex_input' = input
    /\ lex_result' = result
    /\ UNCHANGED parser_vars

Call_token ==
    /\ lex_fn = "none"
    /\ \E s \in Strings(TokenChars, MaxLen) : LexCall("token", s, token(s))

Call_control_sequence ==
    /\ lex_fn = "none"
    /\ \E s \in Strings(TokenChars, MaxLen) :
          LexCall("control_sequence", s, control_sequence(s))

Call_group_content ==
    /\ lex_fn = "none"
    /\ \E s \in Strings(GroupChars, MaxGroupLen) :
          LexCall("group_content", s, group_content(s))

Call_signs ==
    /\ lex_fn = "none"
    /\ \E s \in Strings(SignChars, MaxLen) : LexCall("signs", s, signs(s))

Call_decimal ==
    /\ lex_fn = "none"
    /\ \E s \in DecimalInputs : LexCall("decimal", s, decimal(s))

Call_octal ==
    /\ lex_fn = "none"
    /\ \E s \in Strings(DigitChars, MaxLen) : LexCall("octal", s, octal(s))

Call_hexadecimal ==
    /\ lex_fn = "none"
    /\ \E s \in Strings(DigitChars, MaxLen) :
          LexCall("hexadecimal", s, hexadecimal(s))

Call_integer ==
    /\ lex_fn = "none"
    /\ \E s \in IntegerInputs : LexCall("integer", s, integer(s))

\* Inputs of definition: a control sequence (a word, a symbol, a multi-byte
\* char or nothing after the backslash), whitespace or none, then parameter
\* text, groups and what follows them.
DefinitionNames == {<<>>, <<97>>, <<97, 98>>, <<35>>, <<233>>}
DefinitionInputs ==
    {<<92>> \o name \o ws \o s :
        name \in DefinitionNames, ws \in {<<>>, <<32>>},
        s \in Strings(GroupChars, MaxGroupLen)}

Call_definition ==
    /\ lex_fn = "none"
    /\ \E s \in DefinitionInputs : LexCall("definition", s, definition(s))

Call_rhs_control_sequence ==
    /\ lex_fn = "none"
    /\ \E s \in Strings(TokenChars, MaxLen) :
          LexCall("rhs_control_sequence", s, rhs_control_sequence(s))

Call_one_optional_space ==
    /\ lex_fn = "none"
    /\ \E s \in Strings(SignChars, MaxLen) :
          LexCall("one_optional_space", s, one_optional_space(s))

Call_dimension_unit ==
    /\ lex_fn = "none"
    /\ \E s \in DimensionInputs :
          LexCall("dimension_unit", s, dimension_unit(s))

LexInit ==
    /\ instruction_stack = <<>>
    /\ group_stack = <<>>
    /\ stream = <<>>
    /\ status = "done"
    /\ input0 = <<>>
    /\ last_call = "none"
    /\ lex_fn = "none"
    /\ lex_input = <<>>
    /\ lex_result = Ok(0, <<>>)

LexNext ==
    \/ Call_token
    \/ Call_control_sequence
    \/ Call_group_content
    \/ Call_signs
    \/ Call_decimal
    \/ Call_octal
    \/ Call_hexadecimal
    \/ Call_integer
    \/ Call_dimension_unit
    \/ Call_definition
    \/ Call_rhs_control_sequence
    \/ Call_one_optional_space

LexSpec == LexInit /\ [][LexNext]_vars

----------------------------------------------------------------------------
(* What the lexer is specified to do, stated without the code's own scans. *)

Take(s, k) == SubSeq(s, 1, k)
Drop(s, k) == SubSeq(s, k + 1, Len(s))

\* The length of the maximal leading run of chars of s that satisfy P.
LeadingRun(s, P(_)) ==
    CHOOSE k \in 0..Len(s) :
        /\ \A i \in 1..k : P(s[i])
        /\ k = Len(s) \/ ~P(s[k + 1])

\* s with one leading whitespace char removed, if it has one.
OneSpaceRemoved(s) == IF s # <<>> /\ is_whitespace(s[1]) THEN Tail(s) ELSE s

IsSignChar(c) == c = 43 \/ c = 45 \/ is_whitespace(c)
IsDecimalDigit(c) == c \in 48..57
IsOctalDigit(c) == c \in 48..55
IsHexDigit(c) == c \in (48..57) \cup (65..70)

DigitValue(c) == IF c \in 48..57 THEN c - 48 ELSE c - 55

\* The value of a digit string in a base, its last digit the units.
RECURSIVE PositionalValue(_, _)
PositionalValue(digits, base) ==
    IF digits = <<>> THEN 0
    ELSE PositionalValue(Take(digits, Len(digits) - 1), base) * base
             + DigitValue(digits[Len(digits)])

\* The number of backslashes that directly precede position i of s.
BackslashRunBefore(s, i) ==
    CHOOSE k \in 0..(i - 1) :
        /\ \A j \in (i - k)..(i - 1) : s[j] = 92
        /\ k = i - 1 \/ s[i - k - 1] # 92

IsEscaped(s, i) == BackslashRunBefore(s, i) % 2 = 1
UnescapedBrace(s, i, brace) == s[i] = brace /\ ~IsEscaped(s, i)

\* Unescaped '{' minus unescaped '}' among the first i chars of s.
BraceBalance(s, i) ==
    Cardinality({j \in 1..i : UnescapedBrace(s, j, 123)})
        - Cardinality({j \in 1..i : UnescapedBrace(s, j, 125)})

\* Position i holds the '}' that closes the group s is the inside of.
IsMatchingClose(s, i) ==
    /\ UnescapedBrace(s, i, 125)
    /\ BraceBalance(s, i - 1) = 0
    /\ \A j \in 1..(i - 1) : BraceBalance(s, j) >= 0

----------------------------------------------------------------------------
(* The claims about the lexer, checked under LexSpec.                      *)

\* C4: token returns ControlSequence(name) on a leading backslash; on any
\* other first char c it returns Character(c) and consumes c, so the cursor
\* is the input without c; on empty input it fails with EndOfInput.
C4_TokenConsumesCharacter ==
    lex_fn = "token" =>
        IF lex_input = <<>>
        THEN lex_result.tag = "Err" /\ lex_result.value = EndOfInput
        ELSE IF lex_input[1] = 92
        THEN lex_result.tag = "Ok" /\ lex_result.value.type = "ControlSequence"
        ELSE /\ lex_result.tag = "Ok"
             /\ lex_result.value = Character(lex_input[1])
             /\ lex_result.rest = Tail(lex_input)

\* C5: group_content returns the slice up to the '}' that matches the
\* consumed '{' and leaves the cursor just past it; the slice has unescaped
\* brace balance zero and no prefix of it has a negative balance; with no
\* matching '}' it fails with EndOfInput.
C5_GroupContentBalanced ==
    lex_fn = "group_content" =>
        IF \E i \in 1..Len(lex_input) : IsMatchingClose(lex_input, i)
        THEN LET i == CHOOSE i \in 1..Len(lex_input) : IsMatchingClose(lex_input, i)
                 slice == lex_result.value
             IN  /\ lex_result.tag = "Ok"
                 /\ slice = Take(lex_input, i - 1)
                 /\ lex_result.rest = Drop(lex_input, i)
                 /\ BraceBalance(slice, Len(slice)) = 0
                 /\ \A j \in 1..Len(slice) : BraceBalance(slice, j) >= 0
        ELSE lex_result.tag = "Err" /\ lex_result.value = EndOfInput

\* A group with a nested group and an escaped brace inside, and input left
\* after it.
C5_Witness ==
    /\ lex_fn = "group_content"
    /\ lex_result.tag = "Ok"
    /\ lex_result.rest # <<>>
    /\ \E i \in 1..Len(lex_result.value) :
          UnescapedBrace(lex_result.value, i, 123)
    /\ \E i \in 1..Len(lex_result.value) :
          lex_result.value[i] = 125 /\ IsEscaped(lex_result.value, i)

\* C6: when control_sequence returns on a leading backslash, the name is the
\* maximal run of ASCII letters, or the one char that follows when that is
\* no letter, or empty when nothing follows; whitespace after a letter name
\* is consumed and whitespace after a control symbol stays in the input.
\* (The control space, a whitespace char as the symbol, is left out of the
\* last part: TeX skips blanks after it.)
C6_ControlSequenceName ==
    ( /\ lex_fn = "control_sequence"
      /\ lex_input # <<>>
      /\ lex_input[1] = 92
      /\ lex_result.tag # "Panic" ) =>
        LET after == Tail(lex_input)
            run == LeadingRun(after, is_ascii_alphabetic)
        IN  /\ lex_result.tag = "Ok"
            /\ IF after = <<>>
               THEN lex_result.value = <<>> /\ lex_result.rest = <<>>
               ELSE IF run > 0
               THEN /\ lex_result.value = Take(after, run)
                    /\ lex_result.rest
                          = Drop(after, run + LeadingRun(Drop(after, run), is_whitespace))
               ELSE /\ lex_result.value = <<after[1]>>
                    /\ is_whitespace(after[1]) \/ lex_result.rest = Tail(after)

\* C7: signs never fails; it returns -1 exactly when the maximal leading
\* run of whitespace, '+' and '-' holds an odd number of '-', else 1, and
\* leaves the cursor at the first char after that run.
C7_SignParity ==
    lex_fn = "signs" =>
        LET run == LeadingRun(lex_input, IsSignChar)
            minuses == Cardinality({i \in 1..run : lex_input[i] = 45})
        IN  /\ lex_result.tag = "Ok"
            /\ lex_result.value = (IF minuses % 2 = 1 THEN -1 ELSE 1)
            /\ lex_result.rest = Drop(lex_input, run)

\* A sign prefix that mixes whitespace, '+' and an odd number of '-', with
\* input left after it.
C7_Witness ==
    /\ lex_fn = "signs"
    /\ lex_result.tag = "Ok"
    /\ lex_result.value = -1
    /\ lex_result.rest # <<>>
    /\ \E i, j \in 1..Len(lex_input) : lex_input[i] = 43 /\ is_whitespace(lex_input[j])

\* The parts of the round trip that C8 and its amendment share: decimal on
\* the literal of n, integer on '-' and the literal, on an apostrophe and
\* octal digits, on a double quote and hex digits, and on a backquote, a
\* backslash and an ASCII char.
RoundTripCommon ==
    /\ lex_fn = "decimal" =>
          \A n \in RoundTripNumbers :
              lex_input = DecimalLiteral(n) =>
                  lex_result.tag = "Ok" /\ lex_result.value = n
    /\ lex_fn = "integer" =>
          /\ \A n \in RoundTripNumbers :
                lex_input = <<45>> \o DecimalLiteral(n) =>
                    lex_result.tag = "Ok" /\ lex_result.value = -n
          /\ ( /\ lex_input # <<>>
               /\ lex_input[1] = 39
               /\ \A i \in 2..Len(lex_input) : IsOctalDigit(lex_input[i]) ) =>
                  /\ lex_result.tag = "Ok"
                  /\ lex_result.value = PositionalValue(Tail(lex_input), 8)
          /\ ( /\ lex_input # <<>>
               /\ lex_input[1] = 34
               /\ \A i \in 2..Len(lex_input) : IsHexDigit(lex_input[i]) ) =>
                  /\ lex_result.tag = "Ok"
                  /\ lex_result.value = PositionalValue(Tail(lex_input), 16)
          /\ ( /\ Len(lex_input) = 3
               /\ lex_input[1] = 96
               /\ lex_input[2] = 92
               /\ is_ascii(lex_input[3]) ) =>
                  lex_result.tag = "Ok" /\ lex_result.value = lex_input[3]

\* C8 as stated: number round trip, and integer on a backquote and any
\* ASCII char x returns the code point of x.
C8_RoundTripAnyChar ==
    /\ RoundTripCommon
    /\ ( /\ lex_fn = "integer"
         /\ Len(lex_input) = 2
         /\ lex_input[1] = 96
         /\ is_ascii(lex_input[2]) ) =>
            lex_result.tag = "Ok" /\ lex_result.value = lex_input[2]

\* C8 as amended: number round trip, and integer on a backquote and an
\* ASCII char x other than the backslash returns the code point of x (the
\* backslash itself is written with a backslash before it).
C8_NumberRoundTrip ==
    /\ RoundTripCommon
    /\ ( /\ lex_fn = "integer"
         /\ Len(lex_input) = 2
         /\ lex_input[1] = 96
         /\ is_ascii(lex_input[2])
         /\ lex_input[2] # 92 ) =>
            lex_result.tag = "Ok" /\ lex_result.value = lex_input[2]

\* integer has read a backquote, a backslash and a backslash: code 92.
C8_Witness ==
    /\ lex_fn = "integer"
    /\ lex_input = <<96, 92, 92>>
    /\ lex_result.tag = "Ok"
    /\ lex_result.value = 92

\* The digit run of one base: what the function consumed is the maximal
\* leading run of that base's digits (and one whitespace char after it, if
\* there is one), and the value is the run's value in the base.
DigitRunOfBase(IsDigit(_), base) ==
    LET run == LeadingRun(lex_input, IsDigit)
    IN  /\ lex_result.tag = "Ok"
        /\ lex_result.value = PositionalValue(Take(lex_input, run), base)
        /\ lex_result.rest = OneSpaceRemoved(Drop(lex_input, run))

\* C9: decimal, octal and hexadecimal consume the maximal leading run of
\* digits of their own base (0-9, 0-7, 0-9 and A-F) and return its value.
C9_DigitRunOfOwnBase ==
    /\ lex_fn = "decimal" => DigitRunOfBase(IsDecimalDigit, 10)
    /\ lex_fn = "octal" => DigitRunOfBase(IsOctalDigit, 8)
    /\ lex_fn = "hexadecimal" => DigitRunOfBase(IsHexDigit, 16)

\* The length of the integer literal at the start of s (s follows the sign
\* prefix): decimal digits, backquote and char, apostrophe and octal
\* digits, double quote and hex digits.
LiteralLength(s) ==
    IF IsDecimalDigit(s[1]) THEN LeadingRun(s, IsDecimalDigit)
    ELSE IF s[1] = 96 THEN (IF Len(s) >= 2 /\ s[2] = 92 THEN 3 ELSE 2)
    ELSE IF s[1] = 39 THEN 1 + LeadingRun(Tail(s), IsOctalDigit)
    ELSE 1 + LeadingRun(Tail(s), IsHexDigit)

\* C10: when integer succeeds, in any of its four forms, it has consumed
\* the literal and one whitespace char directly after it, if there is one,
\* and nothing more.
C10_OneSpaceAfterInteger ==
    (lex_fn = "integer" /\ lex_result.tag = "Ok") =>
        LET literal == Drop(lex_input, LeadingRun(lex_input, IsSignChar))
        IN  lex_result.rest
                = OneSpaceRemoved(Drop(literal, LiteralLength(literal)))

IsUnit(a, b) ==
    <<a, b>> \in {<<101, 109>>, <<101, 120>>, <<112, 116>>, <<112, 99>>,
                  <<105, 110>>, <<98, 112>>, <<99, 109>>, <<109, 109>>,
                  <<100, 100>>, <<99, 99>>, <<115, 112>>, <<109, 117>>}
IsUnitStart(c) == c \in {101, 112, 105, 98, 99, 109, 100, 115}
WhitespaceSkipped(s) == Drop(s, LeadingRun(s, is_whitespace))
FewerThanTwoBytes(s) == s = <<>> \/ (Len(s) = 1 /\ s[1] < 128)

\* What C11 says dimension_unit returns on the input t that is left after
\* the leading whitespace.
DimensionUnitAsStated(t) ==
    IF FewerThanTwoBytes(t)
    THEN lex_result.tag = "Err" /\ lex_result.value = EndOfInput
    ELSE IF Len(t) >= 2 /\ IsUnit(t[1], t[2])
    THEN /\ lex_result.tag = "Ok"
         /\ lex_result.rest = OneSpaceRemoved(Drop(t, 2))
    ELSE IF IsUnitStart(t[1])
    THEN lex_result.tag = "Err" /\ lex_result.value = InvalidChar(t[2])
    ELSE lex_result.tag = "Err" /\ lex_result.value = InvalidChar(t[1])

\* C11: dimension_unit, after the leading whitespace, fails with EndOfInput
\* on fewer than 2 bytes; succeeds on exactly the twelve units and consumes
\* the unit and one optional whitespace char; else fails with InvalidChar of
\* the second char when the first is a unit-start letter and of the first
\* char in every other case.  (Checked on the calls that return.)
C11_DimensionUnit ==
    (lex_fn = "dimension_unit" /\ lex_result.tag # "Panic") =>
        DimensionUnitAsStated(WhitespaceSkipped(lex_input))

\* The name of the control sequence whose backslash is followed by s.
NameAfterBackslash(s) ==
    IF s = <<>> THEN <<>>
    ELSE Take(s, Max(LeadingRun(s, is_ascii_alphabetic), 1))

\* What C12 says definition returns, t being the input after the control
\* sequence and its trailing whitespace.
DefinitionAsStated(name, t) ==
    IF \E i \in 1..Len(t) : t[i] = 123
    THEN LET i == CHOOSE i \in 1..Len(t) :
                      t[i] = 123 /\ \A j \in 1..(i - 1) : t[j] # 123
             g == Drop(t, i)
         IN  IF \E k \in 1..Len(g) : IsMatchingClose(g, k)
             THEN LET k == CHOOSE k \in 1..Len(g) : IsMatchingClose(g, k)
                  IN  /\ lex_result.tag = "Ok"
                      /\ lex_result.value =
                             <<name, Take(t, i - 1), Take(g, k - 1)>>
                      /\ lex_result.rest = Drop(g, k)
             ELSE lex_result.tag = "Err" /\ lex_result.value = EndOfInput
    ELSE lex_result.tag = "Err" /\ lex_result.value = EndOfInput

DefinitionOfInput(s) ==
    DefinitionAsStated(NameAfterBackslash(s),
                       WhitespaceSkipped(Drop(s, Len(NameAfterBackslash(s)))))

\* C12: definition on \name<params>{<body>}<rest> returns the name, the
\* parameter text (what lies between the control sequence, after its
\* trailing whitespace, and the first '{') and the brace-balanced body, and
\* leaves the cursor right after the '}' that matches that first '{'; it
\* fails with EndOfInput when no '{' follows or the group is unclosed.
C12_Definition ==
    (lex_fn = "definition" /\ lex_input # <<>> /\ lex_input[1] = 92) =>
        DefinitionOfInput(Tail(lex_input))

\* C17: the lexer never cuts the cursor inside a multi-byte char:
\* rhs_control_sequence returns normally, the name a whole char when it is
\* no letter (a multi-byte char as well), and one_optional_space returns
\* normally with one whole whitespace char consumed, if there is one.
C17_WholeChars ==
    /\ lex_fn = "rhs_control_sequence" =>
          /\ lex_result.tag = "Ok"
          /\ lex_result.value = NameAfterBackslash(lex_input)
    /\ lex_fn = "one_optional_space" =>
          /\ lex_result.tag = "Ok"
          /\ lex_result.value = (lex_input # <<>> /\ is_whitespace(lex_input[1]))
          /\ lex_result.rest = OneSpaceRemoved(lex_input)

----------------------------------------------------------------------------
(* The claims about the parser, checked under Spec.                        *)

OkItem(event) == [ok |-> TRUE, event |-> event]

\* The items next() returns from a parser state until it returns None (or
\* panics).
RECURSIVE Collect(_, _)
CollectFrom(r) ==
    IF r.tag = "Some" THEN <<r.item>> \o Collect(r.istack, r.gstack) ELSE <<>>
Collect(istack, gstack) == CollectFrom(next(istack, gstack))

\* The events of a text: what a parser of its own returns for it, inside
\* the frame.
InsideFrame(items) == SubSeq(items, 2, Len(items) - 1)
EventsOf(text) ==
    InsideFrame(Collect(Parser_new(text).istack, Parser_new(text).gstack))

\* The number of events `event` among the first k items of the stream.
EventCount(event, k) ==
    Cardinality({i \in 1..k : stream[i].ok /\ stream[i].event = event})

\* C1: the stream of next() until None starts with BeginGroup and ends with
\* EndGroup, whatever the input; for the empty input it is exactly
\* BeginGroup, EndGroup.
C1_OuterFrame ==
    /\ stream # <<>> => stream[1] = OkItem(BeginGroup)
    /\ status = "done" =>
          /\ Len(stream) >= 2
          /\ stream[1] = OkItem(BeginGroup)
          /\ stream[Len(stream)] = OkItem(EndGroup)
    /\ (status = "done" /\ input0 = <<>>) =>
          stream = <<OkItem(BeginGroup), OkItem(EndGroup)>>

\* A completed stream of an input that is not empty, with an error inside
\* the frame.
C1_Witness ==
    /\ status = "done"
    /\ input0 # <<>>
    /\ \E i \in 1..Len(stream) : ~stream[i].ok
    /\ stream[Len(stream)] = OkItem(EndGroup)

\* C2: a completed stream without an error has as many BeginGroup as
\* EndGroup events, and no prefix of it has more EndGroup than BeginGroup.
C2_BracketMatching ==
    (status = "done" /\ \A i \in 1..Len(stream) : stream[i].ok) =>
        /\ EventCount(BeginGroup, Len(stream)) = EventCount(EndGroup, Len(stream))
        /\ \A k \in 1..Len(stream) :
              EventCount(BeginGroup, k) >= EventCount(EndGroup, k)

\* The input is \bar{X}: the argument X, and whether the input has that
\* form (the last char is the brace that closes the group).
BarArgument == SubSeq(input0, 6, Len(input0) - 1)
IsBarOfGroup ==
    /\ Len(input0) >= 6
    /\ SubSeq(input0, 1, 5) = <<92>> \o BarName \o <<123>>
    /\ group_content(Drop(input0, 5)) = Ok(BarArgument, <<>>)

\* C3: for \bar{X} the stream is, inside the outer frame, BeginGroup, the
\* events of X, EndGroup, Infix(Overscript) and the Operator of the bar with
\* every attribute None, in this order.
C3_OverscriptOrder ==
    (status = "done" /\ IsBarOfGroup) =>
        stream = <<OkItem(BeginGroup), OkItem(BeginGroup)>>
                     \o EventsOf(BarArgument)
                     \o <<OkItem(EndGroup), OkItem(Infix("Overscript")),
                          OkItem(Operator(8254)), OkItem(EndGroup)>>

\* The stream of \bar{y}, as the test substr_instructions expects it.
C3_Witness ==
    /\ status = "done"
    /\ input0 = <<92>> \o BarName \o <<123, 121, 125>>
    /\ stream = << OkItem(BeginGroup), OkItem(BeginGroup),
                   OkItem(Identifier(121, None)), OkItem(EndGroup),
                   OkItem(Infix("Overscript")), OkItem(Operator(8254)),
                   OkItem(EndGroup) >>

\* The outer input substring is the second instruction from the bottom for
\* as long as it is on the stack: it has been drained and popped once fewer
\* than two instructions are left.  The seed group is the bottom group.
OuterSubstringDrained == Len(instruction_stack) <= 1
SeedGroupOnStack ==
    group_stack # <<>> /\ group_stack[1] = GroupNesting(None, "Internal")

\* C13: next() pops a drained substring on top of the instruction stack
\* and, when the substring's pop_internal_group flag is set, one Internal
\* group with it; so once the outer input substring has been drained the
\* seed Internal group is no longer on the group stack.
C13_DrainedSubstringPopsGroup ==
    (status # "panicked" /\ OuterSubstringDrained) => ~SeedGroupOnStack

\* A substring is still on the instruction stack: input is left to parse.
SubstringOnStack ==
    \E i \in 1..Len(instruction_stack) : instruction_stack[i].instr = "Substring"

IsDigitOrDot(c) == c \in (48..57) \cup {46}
TopContent == Top(instruction_stack).content
NumberRun == LeadingRun(TopContent, IsDigitOrDot)

\* next() is called with a substring on top that starts with a digit or '.'
NumberOnTop ==
    /\ status = "running"
    /\ instruction_stack # <<>>
    /\ Top(instruction_stack).instr = "Substring"
    /\ TopContent # <<>>
    /\ IsDigitOrDot(TopContent[1])

\* C15: with a digit or '.' first in the top substring, next() returns one
\* Number event: its content is the maximal leading run of digits and '.',
\* its variant the font_state of the group on top; the substring is cut by
\* that run in place and the two stacks are otherwise left as they were.
C15_NumberRun ==
    [][ NumberOnTop =>
          /\ stream' = Append(stream,
                 OkItem(Number(Take(TopContent, NumberRun),
                               Top(group_stack).font_state)))
          /\ instruction_stack' =
                 [instruction_stack EXCEPT
                     ![Len(instruction_stack)].content = Drop(TopContent, NumberRun)]
          /\ group_stack' = group_stack ]_vars

\* A number with two dots has been returned, and a number in bold.
C15_Witness ==
    /\ last_call = "next"
    /\ \E i \in 1..Len(stream) :
          /\ stream[i].ok
          /\ stream[i].event.type = "Number"
          /\ Cardinality({j \in 1..Len(stream[i].event.content) :
                             stream[i].event.content[j] = 46}) >= 2
    /\ \E i \in 1..Len(stream) :
          /\ stream[i].ok
          /\ stream[i].event.type = "Number"
          /\ stream[i].event.variant = "Bold"

\* The chars left in the substrings of an instruction stack.
RECURSIVE CharsLeft(_)
CharsLeft(istack) ==
    IF istack = <<>> THEN 0
    ELSE CharsLeft(Tail(istack))
             + (IF Head(istack).instr = "Substring"
                THEN Len(Head(istack).content) ELSE 0)

\* The work left: the instructions, and the chars left, a char counting
\* for more than the instructions a primitive pushes when it is read.
WorkLeft(istack) == Len(istack) + 5 * CharsLeft(istack)

\* The call popped an instruction, or cut a substring that was on the stack
\* by at least one char.
PoppedOrShortened ==
    \/ Len(instruction_stack') < Len(instruction_stack)
    \/ \E i \in 1..Len(instruction_stack) :
          /\ i <= Len(instruction_stack')
          /\ instruction_stack[i].instr = "Substring"
          /\ instruction_stack'[i].instr = "Substring"
          /\ Len(instruction_stack'[i].content) < Len(instruction_stack[i].content)

\* C16: repeated calls of next() end with None.  Every call returns; a call
\* that returns an event or an error has popped an instruction or cut the
\* top substring by at least one char, so that the work left has gone down;
\* and with the instruction stack empty every call returns None.
C16_NextTerminates ==
    [][ /\ status' # "panicked"
        /\ stream' # stream =>
              PoppedOrShortened
                  /\ WorkLeft(instruction_stack') < WorkLeft(instruction_stack)
        /\ instruction_stack = <<>> =>
              status' = "done" /\ stream' = stream /\ instruction_stack' = <<>>
      ]_vars

=============================================================================
